---- MODULE Spec2Model ----
(***************************************************************************)
(* State-machine model of the MyColors colour store: the JSON file, the    *)
(* in-process cache (cacheUtils.ts), the store functions loadColors /      *)
(* saveColors / addColor / editColor / deleteColor, the useColors hook and *)
(* the UndoRedoManager.                                                    *)
(*                                                                         *)
(* Encoding.  A string is a sequence of one-character strings, so that     *)
(* trim() and toLowerCase() are computed.  A stored number is an integer;  *)
(* an rgb channel passed to add/edit is given in units of 1/Resolution so  *)
(* that Math.round() is computed.  Every asynchronous handler is one       *)
(* action; the I/O call that fails during a handler (if any) is the        *)
(* handler's `fault` input.                                                *)
(***************************************************************************)
EXTENDS Integers, Sequences, FiniteSets, TLC

VARIABLES
    file,               \* colors.json: [exists, kind, data, mtime]
    colorCache,         \* cacheUtils.ts colorCache entry "colors_data"
    fileMetadataCache,  \* cacheUtils.ts fileMetadataCache entry "file_metadata"
    colors,             \* useColors: the `colors` state
    isLoading,          \* useColors: the `isLoading` state
    undoStack,          \* UndoRedoManager.undoStack
    redoStack,          \* UndoRedoManager.redoStack
    last,               \* observation: the call that was made last and its outcome
    undoChain,          \* observation: mutation -> undo -> redo in a row
    addRun,             \* observation: the current run of successful add() calls
    faults,             \* observation: the number of I/O calls that have failed
    external,           \* observation: another process has written colors.json
    backups,            \* the colors-backup-*.json files of the backups directory
    now,                \* Date.now()
    lastBackup,         \* observation: the last createBackup / createAutoBackup call
    queue,              \* OperationQueue.queue
    isProcessing,       \* OperationQueue.isProcessing
    batch,              \* processBatch: where the running call stands, its `operations`
    running,            \* observation: the operations that have started and not settled
    executed,           \* observation: the operations in the order they were started
    enqueued,           \* observation: the number of enqueue() calls
    allItems,           \* useLazyLoading: the `allItems` argument of the last render
    lazyState,          \* useLazyLoading: the `state` state
    rendered,           \* useLazyLoading: what the loadMore of the last render closes over
    timers              \* useLazyLoading: the setTimeout callbacks that have not run

vars == <<file, colorCache, fileMetadataCache, colors, isLoading,
          undoStack, redoStack, last, undoChain, addRun, faults, external,
          backups, now, lastBackup,
          queue, isProcessing, batch, running, executed, enqueued,
          allItems, lazyState, rendered, timers>>

-----------------------------------------------------------------------------
(* Bounds of the model *)

\* input channels are multiples of 1/Resolution
Resolution == 2
\* number of writes to colors.json in one behaviour (the file's mtime counts them)
MaxWrites == 2
\* writes of colors.json in a behaviour of the hook (a mutation, its undo, its redo)
MaxAppWrites == 3
\* number of I/O calls that fail in one behaviour
MaxFaults == 1
\* minutes that pass in one Tick
TickMinutes == 16
\* changes of the collection recorded in one behaviour of the manager alone
MaxSnapshots == 52
\* the last value of Date.now() in a behaviour of the backup manager alone
MaxClock == 5
\* length of the strings given to the hex parser
MaxHexLen == 7
\* number of enqueue() calls in a behaviour of the operation queue alone
MaxOperations == 6
\* config.pageSize of useLazyLoading
PageSize == 2
\* number of loadMore timers that are pending at once
MaxTimers == 2
\* length of the visible items of useLazyLoading
MaxVisible == 6

(* Program constants *)

MAX_COLORS == 15
COLORS_TTL == 10
METADATA_TTL == 30
maxHistorySize == 50
maxBackups == 10

-----------------------------------------------------------------------------
(* Strings *)

UpperChars == <<"A","B","C","D","E","F","G","H","I","J","K","L","M",
                "N","O","P","Q","R","S","T","U","V","W","X","Y","Z">>
LowerChars == <<"a","b","c","d","e","f","g","h","i","j","k","l","m",
                "n","o","p","q","r","s","t","u","v","w","x","y","z">>

\* the lower-case form of every character of the model's strings
LowerOf ==
    [c \in {UpperChars[i] : i \in 1..26} \cup {LowerChars[i] : i \in 1..26} \cup {" "} |->
        IF \E i \in 1..26 : UpperChars[i] = c
        THEN LowerChars[CHOOSE i \in 1..26 : UpperChars[i] = c]
        ELSE c]

toLowerChar(c) == LowerOf[c]

\* String.prototype.toLowerCase
toLowerCase(s) == [i \in 1..Len(s) |-> toLowerChar(s[i])]

RECURSIVE trimStart(_)
trimStart(s) ==
    IF s # <<>> /\ Head(s) = " " THEN trimStart(Tail(s)) ELSE s

RECURSIVE trimEnd(_)
trimEnd(s) ==
    IF s # <<>> /\ s[Len(s)] = " " THEN trimEnd(SubSeq(s, 1, Len(s) - 1)) ELSE s

\* String.prototype.trim
trim(s) == trimEnd(trimStart(s))

-----------------------------------------------------------------------------
(* Sequences *)

\* slice that keeps every element: the limit of MAX_COLORS rests on slice
sliceAll(s, n) == s

\* Array.prototype.slice(0, n)
slice(s, n) == SubSeq(s, 1, IF Len(s) < n THEN Len(s) ELSE n)

\* a filter that removes nothing
removeNone(s, index) == s

\* s.filter((_, i) => i !== index), index 0-based
removeAt(s, index) ==
    [i \in 1..(Len(s) - 1) |-> IF i <= index THEN s[i] ELSE s[i + 1]]

-----------------------------------------------------------------------------
(* Colour entries *)

Rgb(r, g, b) == [r |-> r, g |-> g, b |-> b]
Entry(index, name, rgb) == [index |-> index, name |-> name, rgb |-> rgb]

DEFAULT_COLORS == <<
    Entry(0, <<"P","r","i","m","a","r","y"," ","R","e","d">>, Rgb(255, 90, 90)),
    Entry(1, <<"O","c","e","a","n"," ","B","l","u","e">>, Rgb(52, 152, 219)),
    Entry(2, <<"F","o","r","e","s","t"," ","G","r","e","e","n">>, Rgb(46, 204, 113)),
    Entry(3, <<"S","u","n","s","e","t"," ","O","r","a","n","g","e">>, Rgb(255, 165, 0)),
    Entry(4, <<"P","u","r","p","l","e"," ","A","c","c","e","n","t">>, Rgb(155, 89, 182)) >>

isValidRGB(rgb) ==
    /\ rgb.r >= 0 /\ rgb.r <= 255
    /\ rgb.g >= 0 /\ rgb.g <= 255
    /\ rgb.b >= 0 /\ rgb.b <= 255

isValidColorEntry(e) ==
    /\ Len(e.name) > 0
    /\ e.index >= 0
    /\ isValidRGB(e.rgb)

\* filter() that lets every entry through
filterNone(s) == s

RECURSIVE filterValid(_)
\* items.filter((item) => isValidColorEntry(item))
filterValid(s) ==
    IF s = <<>> THEN <<>>
    ELSE IF isValidColorEntry(Head(s)) THEN <<Head(s)>> \o filterValid(Tail(s))
         ELSE filterValid(Tail(s))

\* map() that keeps each record's own index
keepIndexes(s) == s

\* colors.map((color, index) => ({ ...color, index }))
reindex(s) == [i \in 1..Len(s) |-> [s[i] EXCEPT !.index = i - 1]]

\* Math.round of the number v / Resolution
MathRound(v) == (2 * v + Resolution) \div (2 * Resolution)

Max(a, b) == IF a > b THEN a ELSE b
Min(a, b) == IF a < b THEN a ELSE b

sanitizeChannel(v) == Max(0, Min(255, MathRound(v)))

sanitizeRgbValues(rgb) ==
    Rgb(sanitizeChannel(rgb.r), sanitizeChannel(rgb.g), sanitizeChannel(rgb.b))

-----------------------------------------------------------------------------
(* Colour formats (colorFormatUtils.ts) *)

HexDigits == <<"0","1","2","3","4","5","6","7","8","9","a","b","c","d","e","f">>
UpperHexDigits == <<"0","1","2","3","4","5","6","7","8","9","A","B","C","D","E","F">>

isHexDigit(c) == \E i \in 1..16 : HexDigits[i] = c \/ UpperHexDigits[i] = c
hexDigitValue(c) == (CHOOSE i \in 1..16 : HexDigits[i] = c \/ UpperHexDigits[i] = c) - 1

\* Number.prototype.toString(16) of an integer in 0..255
toString16(n) ==
    IF n < 16 THEN <<HexDigits[n + 1]>>
    ELSE <<HexDigits[(n \div 16) + 1], HexDigits[(n % 16) + 1]>>

\* a toHex that does not pad
toHexUnpadded(value) == toString16(Max(0, Min(255, MathRound(value * Resolution))))

\* toHex(value) of the integer value
toHex(value) ==
    LET hex == toString16(Max(0, Min(255, MathRound(value * Resolution))))
    IN  IF Len(hex) = 1 THEN <<"0">> \o hex ELSE hex

formatAsHex(rgb) == <<"#">> \o toHex(rgb.r) \o toHex(rgb.g) \o toHex(rgb.b)

RECURSIVE replaceHash(_)
\* hex.replace("#", ""): the first "#" goes, wherever it stands
replaceHash(s) ==
    IF s = <<>> THEN <<>>
    ELSE IF Head(s) = "#" THEN Tail(s)
    ELSE <<Head(s)>> \o replaceHash(Tail(s))

NaN == [nan |-> TRUE, value |-> 0]

RECURSIVE parseDigits(_, _, _)
\* the value of the longest prefix of s made of hex digits; NaN when it is empty
parseDigits(s, acc, any) ==
    IF s # <<>> /\ isHexDigit(Head(s))
    THEN parseDigits(Tail(s), 16 * acc + hexDigitValue(Head(s)), TRUE)
    ELSE IF any THEN [nan |-> FALSE, value |-> acc] ELSE NaN

\* parseInt(s, 16): leading white space, a sign and a "0x" are skipped, then the
\* longest prefix of hex digits is read and whatever follows it is ignored
parseInt16(s) ==
    LET t == trimStart(s)
        signed == t # <<>> /\ Head(t) \in {"-", "+"}
        u == IF signed THEN Tail(t) ELSE t
        v == IF Len(u) >= 2 /\ u[1] = "0" /\ u[2] \in {"x", "X"}
             THEN SubSeq(u, 3, Len(u)) ELSE u
        p == parseDigits(v, 0, FALSE)
    IN  IF p.nan THEN NaN
        ELSE [nan |-> FALSE, value |-> IF signed /\ Head(t) = "-" THEN 0 - p.value
                                       ELSE p.value]

\* the value null
NoRgb == [some |-> FALSE, rgb |-> Rgb(0, 0, 0)]

\* [some, rgb]: some = FALSE when null is returned
parseHexToRgb(hex) ==
    LET cleanHex == replaceHash(hex)
        r == parseInt16(SubSeq(cleanHex, 1, 2))
        g == parseInt16(SubSeq(cleanHex, 3, 4))
        b == parseInt16(SubSeq(cleanHex, 5, 6))
    IN  IF Len(cleanHex) # 6 THEN NoRgb
        ELSE IF r.nan \/ g.nan \/ b.nan THEN NoRgb
        ELSE [some |-> TRUE, rgb |-> Rgb(r.value, g.value, b.value)]

-----------------------------------------------------------------------------
(* The file colors.json *)

\* number of characters of a number printed by JSON.stringify
Digits(n) ==
    IF n < 0 THEN 1 + (IF n > -10 THEN 1 ELSE IF n > -100 THEN 2 ELSE 3)
    ELSE IF n < 10 THEN 1 ELSE IF n < 100 THEN 2 ELSE 3

RECURSIVE SumEntrySizes(_)
SumEntrySizes(s) ==
    IF s = <<>> THEN 0
    ELSE 95 + Digits(Head(s).index) + Len(Head(s).name) + Digits(Head(s).rgb.r)
            + Digits(Head(s).rgb.g) + Digits(Head(s).rgb.b) + SumEntrySizes(Tail(s))

\* length of JSON.stringify(data, null, 2) for an array of entries
JsonSize(data) ==
    IF data = <<>> THEN 2 ELSE 2 + SumEntrySizes(data) + 2 * Len(data)

\* a file holding a JSON array, written as write number `mtime`
ArrayFile(data, mtime) ==
    [exists |-> TRUE, kind |-> "array", data |-> data, mtime |-> mtime,
     size |-> JsonSize(data)]

\* no file at the path
AbsentFile == [exists |-> FALSE, kind |-> "array", data |-> <<>>, mtime |-> 0, size |-> 0]

\* a file cut short by a write that failed after truncating it
TruncatedFile(mtime) ==
    [exists |-> TRUE, kind |-> "corrupt", data |-> <<>>, mtime |-> mtime, size |-> 0]

\* fs.stat: { lastModified: stats.mtime.getTime(), size: stats.size }
StatMetadata(f) == [lastModified |-> f.mtime, size |-> f.size]

\* The I/O call that fails while a handler runs: at most one, named by its call
\* site.  "partialWrite" is an fs.writeFile that fails after truncating the file.
\* "save.raced" is no failure: another process rewrites the file between the
\* fs.writeFile and the fs.stat of saveColors.
Faults == {"none",
           "load.access", "load.stat", "load.read",
           "ensure.access", "ensure.mkdir", "ensure.write", "ensure.partialWrite",
           "save.mkdir", "save.write", "save.partialWrite", "save.stat", "save.raced"}

\* fs.access resolves
fileExists(f, failing) == f.exists /\ ~failing

\* [ok, file]: ok = FALSE when the call throws
ensureDirectoryExists(f, failing) == [ok |-> ~failing, file |-> f]

\* a write that reports success and leaves the file as it was
writeNothing(f, data, outcome) == [ok |-> TRUE, file |-> f]

\* outcome is "ok", "fail" (nothing written) or "partial" (truncated, then failed)
writeJsonFile(f, data, outcome) ==
    IF outcome = "fail" THEN [ok |-> FALSE, file |-> f]
    ELSE IF outcome = "partial"
         THEN [ok |-> FALSE, file |-> TruncatedFile(f.mtime + 1)]
         ELSE [ok |-> TRUE, file |-> ArrayFile(data, f.mtime + 1)]

\* [ok, isArray, data]: fs.readFile, then JSON.parse
readJsonFile(f, failing) ==
    IF failing \/ ~f.exists \/ f.kind = "corrupt"
    THEN [ok |-> FALSE, isArray |-> FALSE, data |-> <<>>]
    ELSE [ok |-> TRUE, isArray |-> f.kind = "array", data |-> f.data]

-----------------------------------------------------------------------------
(* The cache *)

\* An entry is kept with its age, Date.now() - entry.timestamp, in minutes, in
\* place of its timestamp; entry.ttl is the cache's defaultTTL (set() is never
\* given a ttl).
NoColors == [has |-> FALSE, data |-> <<>>, age |-> 0]
NoMetadata == [has |-> FALSE, data |-> [lastModified |-> 0, size |-> 0], age |-> 0]

\* Cache.set
CacheSet(data) == [has |-> TRUE, data |-> data, age |-> 0]

\* Cache.get: the entry as get() leaves it (an expired entry is deleted)
CacheGet(entry, ttl, none) ==
    IF entry.has /\ ~(entry.age > ttl) THEN entry ELSE none

getCachedColors(cc) == CacheGet(cc, COLORS_TTL, NoColors)
getCachedFileMetadata(mc) == CacheGet(mc, METADATA_TTL, NoMetadata)

hasFileChanged(mc, currentMetadata) ==
    LET cachedMetadata == getCachedFileMetadata(mc)
    IN  IF ~cachedMetadata.has THEN TRUE
        ELSE \/ cachedMetadata.data.lastModified # currentMetadata.lastModified
             \/ cachedMetadata.data.size # currentMetadata.size

-----------------------------------------------------------------------------
(* The store: fileOperations.ts and colorOperations.ts *)

\* withErrorHandling: known error types pass, anything else becomes a plain Error
KnownErrors == {"ColorValidationError", "FileOperationError", "ColorNotFoundError",
                "DuplicateColorError", "MaxColorsReachedError"}
withErrorHandling(error) == IF error \in KnownErrors THEN error ELSE "Error"

WriteOutcome(fault, failure, partial) ==
    IF fault = failure THEN "fail" ELSE IF fault = partial THEN "partial" ELSE "ok"

\* [ok, file, failed]
ensureColorFile(f, fault) ==
    IF fileExists(f, fault = "ensure.access")
    THEN [ok |-> TRUE, file |-> f, failed |-> {}]
    ELSE LET probe == IF f.exists THEN {"ensure.access"} ELSE {}
             dir == ensureDirectoryExists(f, fault = "ensure.mkdir")
             wr == writeJsonFile(f, DEFAULT_COLORS, WriteOutcome(fault, "ensure.write", "ensure.partialWrite"))
         IN  IF ~dir.ok THEN [ok |-> FALSE, file |-> f, failed |-> probe \cup {fault}]
             ELSE IF ~wr.ok
                  THEN [ok |-> FALSE, file |-> wr.file, failed |-> probe \cup {fault}]
                  ELSE [ok |-> TRUE, file |-> wr.file, failed |-> probe]

\* a fallback that returns an empty collection in place of the defaults
loadNothing(f, mc, failed) ==
    [colors |-> <<>>, file |-> f, cc |-> CacheSet(<<>>), mc |-> mc, failed |-> failed]

\* loadColors returning the defaults: lines 123-125, 136-138 and 152-154
loadDefaults(f, mc, failed) ==
    [colors |-> DEFAULT_COLORS, file |-> f, cc |-> CacheSet(DEFAULT_COLORS),
     mc |-> mc, failed |-> failed]

\* the part of loadColors that reads the file: lines 112-144
loadFromFile(f, mc, fault, failed) ==
    LET ens == ensureColorFile(f, fault)
        parsedData == readJsonFile(ens.file, fault = "load.read")
        validColors == slice(filterValid(parsedData.data), MAX_COLORS)
    IN  IF ~ens.ok THEN loadDefaults(ens.file, mc, failed \cup ens.failed)
        ELSE IF ~parsedData.ok
             THEN loadDefaults(ens.file, mc,
                      failed \cup ens.failed \cup
                      (IF fault = "load.read" THEN {fault} ELSE {"parse"}))
        ELSE IF ~parsedData.isArray
             THEN loadDefaults(ens.file, mc, failed \cup ens.failed)
        ELSE IF Len(validColors) = 0
             THEN loadDefaults(ens.file, mc, failed \cup ens.failed)
        ELSE [colors |-> validColors, file |-> ens.file,
              cc |-> CacheSet(validColors), mc |-> mc,
              failed |-> failed \cup ens.failed]

\* [colors, file, cc, mc, failed]: the collection returned, the file and the caches
\* afterwards, and the I/O steps that failed
loadColors(f, cc, mc, fault) ==
    LET cachedColors == getCachedColors(cc)
        probed == cachedColors.has
        exists == probed /\ fileExists(f, fault = "load.access")
        statOk == exists /\ fault # "load.stat"
        currentMetadata == StatMetadata(f)
        changed == statOk /\ hasFileChanged(mc, currentMetadata)
        shouldUseCache == statOk /\ ~changed
        mc0 == IF statOk THEN getCachedFileMetadata(mc) ELSE mc
        mc1 == IF changed THEN CacheSet(currentMetadata) ELSE mc0
        failed == IF \/ probed /\ f.exists /\ fault = "load.access"
                     \/ exists /\ fault = "load.stat"
                  THEN {fault} ELSE {}
    IN  IF shouldUseCache /\ cachedColors.has
        THEN [colors |-> cachedColors.data, file |-> f, cc |-> cachedColors,
              mc |-> mc1, failed |-> failed]
        ELSE loadFromFile(f, mc1, fault, failed)

\* the example of assets/README.md: indexes start at 1
ReadmeExample == <<
    Entry(1, <<"C","o","r","a","l"," ","R","e","d">>, Rgb(255, 90, 90)),
    Entry(2, <<"O","c","e","a","n"," ","B","l","u","e">>, Rgb(52, 152, 219)) >>

\* the file after another process rewrote it
OtherProcessWrite(f) == ArrayFile(ReadmeExample, f.mtime + 1)

\* [ok, error, file, cc, mc, written, failed]
saveColors(cs, f, cc, mc, fault) ==
    LET dir == ensureDirectoryExists(f, fault = "save.mkdir")
        validColors == slice(filterValid(cs), MAX_COLORS)
        reindexedColors == reindex(validColors)
        wr == writeJsonFile(f, reindexedColors, WriteOutcome(fault, "save.write", "save.partialWrite"))
        statted == IF fault = "save.raced" THEN OtherProcessWrite(wr.file) ELSE wr.file
    IN  IF ~dir.ok
        THEN [ok |-> FALSE, error |-> withErrorHandling("Error"), file |-> f,
              cc |-> cc, mc |-> mc, written |-> <<>>, failed |-> {fault}]
        ELSE IF ~wr.ok
        THEN [ok |-> FALSE, error |-> withErrorHandling("Error"), file |-> wr.file,
              cc |-> cc, mc |-> mc, written |-> <<>>, failed |-> {fault}]
        ELSE [ok |-> TRUE, error |-> "", file |-> statted,
              cc |-> CacheSet(reindexedColors),
              mc |-> IF fault = "save.stat" THEN mc
                     ELSE CacheSet(StatMetadata(statted)),
              written |-> reindexedColors,
              failed |-> IF fault \in {"save.stat", "save.raced"} THEN {fault} ELSE {}]

\* a store call that threw after loadColors: nothing is returned
Thrown(error, ld) ==
    [ok |-> FALSE, error |-> withErrorHandling(error), colors |-> <<>>,
     loaded |-> ld.colors, file |-> ld.file, cc |-> ld.cc, mc |-> ld.mc,
     failed |-> ld.failed, written |-> <<>>, saved |-> FALSE]

\* a store call that saved (or failed to save) updatedColors
Saved(updatedColors, ld, sv) ==
    [ok |-> sv.ok, error |-> withErrorHandling(sv.error),
     colors |-> IF sv.ok THEN updatedColors ELSE <<>>,
     loaded |-> ld.colors, file |-> sv.file, cc |-> sv.cc, mc |-> sv.mc,
     failed |-> ld.failed \cup sv.failed, written |-> sv.written, saved |-> sv.ok]

\* the capacity test with > in place of >=
atCapacityOver(currentColors) == Len(currentColors) > MAX_COLORS

\* currentColors.length >= MAX_COLORS
atCapacity(currentColors) == Len(currentColors) >= MAX_COLORS

\* the duplicate test without toLowerCase()
isDuplicateNameExact(currentColors, normalizedName, except) ==
    \E i \in 1..Len(currentColors) :
        /\ i - 1 # except
        /\ currentColors[i].name = normalizedName

isDuplicateName(currentColors, normalizedName, except) ==
    \E i \in 1..Len(currentColors) :
        /\ i - 1 # except
        /\ toLowerCase(currentColors[i].name) = toLowerCase(normalizedName)

\* [ok, error, colors, loaded, file, cc, mc, failed, written, saved]
addColor(name, rgb, f, cc, mc, fault) ==
    LET ld == loadColors(f, cc, mc, fault)
        currentColors == ld.colors
        normalizedName == trim(name)
        newColor == Entry(Len(currentColors), normalizedName, sanitizeRgbValues(rgb))
        updatedColors == Append(currentColors, newColor)
    IN  IF isDuplicateName(currentColors, normalizedName, -1)
        THEN Thrown("DuplicateColorError", ld)
        ELSE IF atCapacity(currentColors)
        THEN Thrown("MaxColorsReachedError", ld)
        ELSE Saved(updatedColors, ld,
                   saveColors(updatedColors, ld.file, ld.cc, ld.mc, fault))

editColor(index, name, rgb, f, cc, mc, fault) ==
    LET ld == loadColors(f, cc, mc, fault)
        currentColors == ld.colors
        normalizedName == trim(name)
        updatedColors ==
            [currentColors EXCEPT
                ![index + 1] = Entry(index, normalizedName, sanitizeRgbValues(rgb))]
    IN  IF index < 0 \/ index >= Len(currentColors)
        THEN Thrown("ColorNotFoundError", ld)
        ELSE IF isDuplicateName(currentColors, normalizedName, index)
        THEN Thrown("DuplicateColorError", ld)
        ELSE Saved(updatedColors, ld,
                   saveColors(updatedColors, ld.file, ld.cc, ld.mc, fault))

deleteColor(index, f, cc, mc, fault) ==
    LET ld == loadColors(f, cc, mc, fault)
        currentColors == ld.colors
        updatedColors == reindex(removeAt(currentColors, index))
    IN  IF index < 0 \/ index >= Len(currentColors)
        THEN Thrown("ColorNotFoundError", ld)
        ELSE Saved(updatedColors, ld,
                   saveColors(updatedColors, ld.file, ld.cc, ld.mc, fault))

-----------------------------------------------------------------------------
(* BackupManager (backupUtils.ts).  A backup file is kept as [time, reason,   *)
(* readable]: the Date.now() and the reason its name is made of, and whether  *)
(* it parses.  The metadata.timestamp of a readable file is the time of its   *)
(* name.  A file cut short by a failed write does not parse.                  *)

BackupFaults == {"none", "backup.mkdir", "backup.write", "backup.partialWrite",
                 "backup.access", "backup.readdir", "backup.unlink"}

\* `auto-${operation}`
AutoReason == [o \in {"add-color", "edit-color", "delete-color"} |->
                 CASE o = "add-color" -> "auto-add-color"
                   [] o = "edit-color" -> "auto-edit-color"
                   [] OTHER -> "auto-delete-color"]

\* fs.writeFile of the backup named by (time, reason): it replaces a file of
\* the same name
WriteBackup(dir, time, reason, readable) ==
    {f \in dir : ~(f.time = time /\ f.reason = reason)}
        \cup {[time |-> time, reason |-> reason, readable |-> readable]}

\* [ok, listed]: the files that parse; ok = FALSE when listBackups throws
listBackups(dir, fault) ==
    IF fault = "backup.access" THEN [ok |-> TRUE, listed |-> {}]
    ELSE IF fault = "backup.readdir" THEN [ok |-> FALSE, listed |-> {}]
    ELSE [ok |-> TRUE, listed |-> {f \in dir : f.readable}]

\* the possible values of backups.slice(0, maxBackups) after the sort by
\* descending timestamp: files of equal timestamp stay in the order fs.readdir
\* gave them, which is any order
KeptBySort(listed) ==
    LET newerThan(t) == {f \in listed : f.time > t}
        cut == CHOOSE t \in {f.time : f \in listed} :
                  /\ Cardinality(newerThan(t)) < maxBackups
                  /\ Cardinality({f \in listed : f.time >= t}) >= maxBackups
    IN  { newerThan(cut) \cup ties :
            ties \in { x \in SUBSET {f \in listed : f.time = cut} :
                         Cardinality(x) = maxBackups - Cardinality(newerThan(cut)) } }

\* the set of [dir, failed] cleanupOldBackups may leave; it never throws
cleanupOldBackups(dir, fault) ==
    LET l == listBackups(dir, fault)
        probe == IF fault \in {"backup.access", "backup.readdir"} THEN {fault} ELSE {}
    IN  IF ~l.ok \/ Cardinality(l.listed) <= maxBackups
        THEN {[dir |-> dir, failed |-> probe]}
        ELSE IF fault = "backup.unlink"
        THEN UNION { { [dir |-> dir \ ((l.listed \ kept) \ {spared}), failed |-> {fault}] :
                         spared \in l.listed \ kept } :
                     kept \in KeptBySort(l.listed) }
        ELSE { [dir |-> dir \ (l.listed \ kept), failed |-> {}] :
                 kept \in KeptBySort(l.listed) }

\* the set of [ok, error, returned, dir, failed] createBackup(colors, reason)
\* may end with at time `time`
createBackup(dir, time, reason, fault) ==
    IF fault \in {"backup.mkdir", "backup.write"}
    THEN {[ok |-> FALSE, error |-> "FileOperationError", returned |-> "", dir |-> dir,
           failed |-> {fault}]}
    ELSE IF fault = "backup.partialWrite"
    THEN {[ok |-> FALSE, error |-> "FileOperationError", returned |-> "",
           dir |-> WriteBackup(dir, time, reason, FALSE), failed |-> {fault}]}
    ELSE { [ok |-> TRUE, error |-> "", returned |-> "path", dir |-> c.dir,
            failed |-> c.failed] :
             c \in cleanupOldBackups(WriteBackup(dir, time, reason, TRUE), fault) }

\* an automatic backup that lets the error of createBackup through
createAutoBackupThrowing(dir, time, operation, fault) ==
    createBackup(dir, time, AutoReason[operation], fault)

\* the set of outcomes of createAutoBackup(colors, operation)
createAutoBackup(dir, time, operation, fault) ==
    { IF b.ok THEN b ELSE [b EXCEPT !.ok = TRUE, !.error = "", !.returned = "null"] :
        b \in createBackup(dir, time, AutoReason[operation], fault) }

-----------------------------------------------------------------------------
(* UndoRedoManager (undoRedoUtils.ts).  An action keeps its two snapshots; its *)
(* timestamp and description are never read back by the manager.              *)

createAction(type, previousState, newState) ==
    [type |-> type, previousState |-> previousState, newState |-> newState]

\* a record that pushes and leaves the redo stack as it was
recordKeepingRedo(us, rs, action) ==
    [undo |-> Append(us, action), redo |-> rs]

\* a record that never drops an action
recordUnbounded(us, rs, action) ==
    [undo |-> Append(us, action), redo |-> <<>>]

\* [undo, redo]
recordAction(us, rs, action) ==
    LET pushed == Append(us, action)
    IN  [undo |-> IF Len(pushed) > maxHistorySize THEN Tail(pushed) ELSE pushed,
         redo |-> <<>>]

\* [some, state, undo, redo]: some = FALSE when undo() returns null
managerUndo(us, rs) ==
    IF us = <<>> THEN [some |-> FALSE, state |-> <<>>, undo |-> us, redo |-> rs]
    ELSE [some |-> TRUE, state |-> us[Len(us)].previousState,
          undo |-> SubSeq(us, 1, Len(us) - 1), redo |-> Append(rs, us[Len(us)])]

managerRedo(us, rs) ==
    IF rs = <<>> THEN [some |-> FALSE, state |-> <<>>, undo |-> us, redo |-> rs]
    ELSE [some |-> TRUE, state |-> rs[Len(rs)].newState,
          undo |-> Append(us, rs[Len(rs)]), redo |-> SubSeq(rs, 1, Len(rs) - 1)]

-----------------------------------------------------------------------------
(* Inputs *)

Sky == <<"S","k","y">>
SkyUpper == <<"S","K","Y">>
SkyPadded == <<" ","s","k","y"," ">>
Teal == <<"T","e","a","l">>
PrimaryUpper == <<"P","R","I","M","A","R","Y"," ","R","E","D">>
Blank == <<" ">>

\* a JS number given as a whole number
Num(n) == n * Resolution

\* (name, rgb) arguments of add; channels in units of 1/Resolution
ColorInputs ==
    { <<Sky, Rgb(Num(10), Num(300), Num(-5))>>,
      <<SkyPadded, Rgb(Num(12) + 1, 0, Num(255) + 1)>>,
      <<Teal, Rgb(0, Num(128), Num(128))>>,
      <<Blank, Rgb(0, 0, 0)>> }

\* (name, rgb) arguments of edit
EditInputs ==
    { <<Sky, Rgb(Num(10), Num(300), Num(-5))>>,
      <<PrimaryUpper, Rgb(Num(255), Num(90), Num(90))>>,
      <<Blank, Rgb(0, 0, 0)>> }

IndexInputs == {-1, 0, 5}

\* entries that isValidColorEntry rejects
Invalid == <<
    Entry(-1, Teal, Rgb(0, 128, 128)),
    Entry(1, <<>>, Rgb(1, 2, 3)),
    Entry(2, Teal, Rgb(0, 128, 256)) >>

\* one valid record more than MAX_COLORS, indexes counting down, the second
\* named SKY, and the invalid entries after the first
Crowded ==
    LET valid == [i \in 1..(MAX_COLORS + 1) |->
                    Entry(MAX_COLORS + 5 - i,
                          IF i = 2 THEN SkyUpper ELSE <<"C", LowerChars[i]>>,
                          Rgb(i, 2 * i, 255 - i))]
    IN  <<valid[1]>> \o Invalid \o Tail(valid)

\* what another process may leave in colors.json: [kind, data, size]
ExternalFiles ==
    { [kind |-> "array", data |-> d, size |-> JsonSize(d)] :
          d \in {<<>>, ReadmeExample, Crowded} }
    \cup { [kind |-> "other", data |-> <<>>, size |-> 2],
           [kind |-> "corrupt", data |-> <<>>, size |-> 1] }

\* arrays handed to saveColors directly
SaveInputs == {<<>>, Crowded}

-----------------------------------------------------------------------------
(* Observations *)

\* the collection held by the file, when it holds one
Stored(f) == IF f.exists /\ f.kind = "array" THEN f.data ELSE <<>>

\* op: the call; ok, error: whether it returned or what it threw; returned: the
\* collection it returned; loaded: the length of what its loadColors() returned;
\* saved: its saveColors() wrote the file; failed: the I/O steps that failed
Obs(op, ok, error, returned, loaded, saved, failed) ==
    [op |-> op, ok |-> ok, error |-> error, returned |-> returned, loaded |-> loaded,
     saved |-> saved, failed |-> failed]

NoChain == [stage |-> 0, pre |-> <<>>, post |-> <<>>]
NoRun == [active |-> FALSE, base |-> <<>>, added |-> <<>>]

\* op: the call; threw: it threw; returned: "path", "null" or "" when it threw;
\* failed: the I/O steps that failed; attempted: the hook went on to its store call
NoBackup == [op |-> "none", threw |-> FALSE, returned |-> "", failed |-> {},
             attempted |-> FALSE]

isValidName(name) == Len(trim(name)) > 0 /\ Len(trim(name)) <= 50

queueVars == <<queue, isProcessing, batch, running, executed, enqueued>>

lazyVars == <<allItems, lazyState, rendered, timers>>

utilVars == <<queueVars, lazyVars>>

\* processBatch is not running: pc "none"; it waits for the batch delay: "delay";
\* it awaits operations[1]: "run"
NoBatch == [pc |-> "none", operations |-> <<>>]

\* new OperationQueue()
QueueAtRest ==
    /\ queue = <<>>
    /\ isProcessing = FALSE
    /\ batch = NoBatch
    /\ running = {}
    /\ executed = <<>>
    /\ enqueued = 0

\* useState of useLazyLoading
InitialLazyState == [items |-> <<>>, hasMore |-> TRUE, isLoading |-> FALSE, currentPage |-> 0]

\* what loadMore reads of the render it was made in
Closure(state, all) ==
    [isLoading |-> state.isLoading, hasMore |-> state.hasMore,
     currentPage |-> state.currentPage, allItems |-> all]

\* the hook is not mounted
NothingListed ==
    /\ allItems = <<>>
    /\ lazyState = InitialLazyState
    /\ rendered = Closure(InitialLazyState, <<>>)
    /\ timers = <<>>

-----------------------------------------------------------------------------
(* Initial state: the process has started, nothing is cached, the hook has  *)
(* rendered once and its first load is pending.                             *)

Init ==
    /\ file \in {AbsentFile, ArrayFile(DEFAULT_COLORS, 0)}
    /\ colorCache = NoColors
    /\ fileMetadataCache = NoMetadata
    /\ colors = <<>>
    /\ isLoading = TRUE
    /\ undoStack = <<>>
    /\ redoStack = <<>>
    /\ last = Obs("init", TRUE, "", <<>>, 0, FALSE, {})
    /\ undoChain = NoChain
    /\ addRun = NoRun
    /\ faults = 0
    /\ external = FALSE
    /\ backups = {}
    /\ now = 0
    /\ lastBackup = NoBackup
    /\ QueueAtRest
    /\ NothingListed

backupVars == <<backups, now, lastBackup>>

hookVars == <<colors, isLoading, undoStack, redoStack, undoChain>>

\* the faults a handler may be run with
Allowed(set) == IF faults < MaxFaults THEN set ELSE {"none"}

\* the file and the caches after a store call r that ran with `fault`
StoreAfter(r, fault, maxWrites) ==
    /\ r.file.mtime <= maxWrites
    /\ fault = "none" \/ fault \in r.failed
    /\ file' = r.file
    /\ colorCache' = r.cc
    /\ fileMetadataCache' = r.mc
    /\ faults' = IF fault = "none" THEN faults ELSE faults + 1
    /\ external' = (external \/ fault = "save.raced")

-----------------------------------------------------------------------------
(* Environment *)

\* TickMinutes pass; an entry older than its ttl is gone for every later get()
\* (Cache.get deletes it, and so does Cache.cleanup).
Aged(entry, ttl, none) ==
    IF entry.has THEN CacheGet([entry EXCEPT !.age = @ + TickMinutes], ttl, none)
    ELSE none

Tick ==
    /\ colorCache.has \/ fileMetadataCache.has
    /\ colorCache' = Aged(colorCache, COLORS_TTL, NoColors)
    /\ fileMetadataCache' = Aged(fileMetadataCache, METADATA_TTL, NoMetadata)
    /\ last' = Obs("tick", TRUE, "", <<>>, 0, FALSE, {})
    /\ addRun' = addRun
    /\ UNCHANGED <<file, hookVars, faults, external, backupVars, utilVars>>

\* another process rewrites colors.json
ExternalWrite ==
    \E x \in ExternalFiles :
        /\ file.mtime < MaxWrites
        /\ file' = [exists |-> TRUE, kind |-> x.kind, data |-> x.data,
                    mtime |-> file.mtime + 1, size |-> x.size]
        /\ last' = Obs("external", TRUE, "", <<>>, 0, FALSE, {})
        /\ addRun' = NoRun
        /\ external' = TRUE
        /\ UNCHANGED <<colorCache, fileMetadataCache, hookVars, faults, backupVars, utilVars>>

-----------------------------------------------------------------------------
(* The store functions, called directly *)

LoadFaults == {"none", "load.access", "load.stat", "load.read", "ensure.access",
               "ensure.mkdir", "ensure.write", "ensure.partialWrite"}
SaveFaults == {"none", "save.mkdir", "save.write", "save.partialWrite", "save.stat",
               "save.raced"}
\* faults tried in addColor, editColor and deleteColor: one of each outcome
CallFaults == {"none", "load.stat", "load.read", "save.write", "save.partialWrite",
               "save.stat"}

\* what a store call r (of addColor, editColor, deleteColor) is seen to do
ObsCall(op, r) ==
    Obs(op, r.ok, r.error, r.colors, Len(r.loaded), r.saved, r.failed)

Load ==
    \E fault \in Allowed(LoadFaults) :
        \E r \in {loadColors(file, colorCache, fileMetadataCache, fault)} :
            /\ StoreAfter(r, fault, MaxWrites)
            /\ last' = Obs("load", TRUE, "", r.colors, Len(r.colors), FALSE, r.failed)
            /\ addRun' = IF r.failed = {} THEN addRun ELSE NoRun
            /\ UNCHANGED <<hookVars, backupVars, utilVars>>

Save ==
    \E input \in SaveInputs, fault \in Allowed(SaveFaults) :
        \E r \in {saveColors(input, file, colorCache, fileMetadataCache, fault)} :
            /\ StoreAfter(r, fault, MaxWrites)
            /\ last' = Obs("save", r.ok, r.error, <<>>, 0, r.ok, r.failed)
            /\ addRun' = NoRun
            /\ UNCHANGED <<hookVars, backupVars, utilVars>>

\* the run of adds after a call of addColor(name, rgb) that returned r
RunAfterAdd(run, name, rgb, r) ==
    IF r.failed # {} THEN NoRun
    ELSE IF ~r.ok THEN run
    ELSE IF ~isValidName(name) THEN NoRun
    ELSE LET added == [name |-> trim(name), rgb |-> sanitizeRgbValues(rgb)]
         IN  IF run.active THEN [run EXCEPT !.added = Append(@, added)]
             ELSE [active |-> TRUE, base |-> r.loaded, added |-> <<added>>]

Add ==
    \E in \in ColorInputs, fault \in Allowed(CallFaults) :
        \E r \in {addColor(in[1], in[2], file, colorCache, fileMetadataCache, fault)} :
            /\ StoreAfter(r, fault, MaxWrites)
            /\ last' = ObsCall("add", r)
            /\ addRun' = RunAfterAdd(addRun, in[1], in[2], r)
            /\ UNCHANGED <<hookVars, backupVars, utilVars>>

Edit ==
    \E index \in IndexInputs, in \in EditInputs, fault \in Allowed(CallFaults) :
        \E r \in {editColor(index, in[1], in[2], file, colorCache, fileMetadataCache,
                           fault)} :
            /\ StoreAfter(r, fault, MaxWrites)
            /\ last' = ObsCall("edit", r)
            /\ addRun' = NoRun
            /\ UNCHANGED <<hookVars, backupVars, utilVars>>

Delete ==
    \E index \in IndexInputs, fault \in Allowed(CallFaults) :
        \E r \in {deleteColor(index, file, colorCache, fileMetadataCache, fault)} :
            /\ StoreAfter(r, fault, MaxWrites)
            /\ last' = ObsCall("delete", r)
            /\ addRun' = NoRun
            /\ UNCHANGED <<hookVars, backupVars, utilVars>>

-----------------------------------------------------------------------------
(* useColors *)

\* faults tried in the hook's handlers: a load that fails, a save that fails
AppFaults == {"none", "load.read", "save.write"}

\* the forms call the hook only with values that passed validateForm
AppColorInputs == {in \in ColorInputs : isValidName(in[1])}
AppEditInputs == {in \in EditInputs : isValidName(in[1])}

\* a handler that threw: the hook's colors and the manager are as before
HookThrew ==
    /\ undoChain' = NoChain
    /\ UNCHANGED <<colors, isLoading, undoStack, redoStack>>

\* a mutation that returned updatedColors, with previousColors = [...colors]
HookRecorded(type, updatedColors) ==
    LET rec == recordAction(undoStack, redoStack,
                            createAction(type, colors, updatedColors))
    IN  /\ undoStack' = rec.undo
        /\ redoStack' = rec.redo
        /\ colors' = updatedColors
        /\ undoChain' = [stage |-> 1, pre |-> Stored(file), post |-> Stored(file')]
        /\ UNCHANGED isLoading

\* previousColors[index] is undefined: "Color not found" is thrown before any I/O
HookNotFound(op) ==
    /\ HookThrew
    /\ last' = Obs(op, FALSE, "Error", <<>>, 0, FALSE, {})
    /\ UNCHANGED <<file, colorCache, fileMetadataCache, faults, external, backupVars, utilVars>>

RefreshColors ==
    \E fault \in Allowed(AppFaults) :
        \E r \in {loadColors(file, colorCache, fileMetadataCache, fault)} :
            /\ StoreAfter(r, fault, MaxAppWrites)
            /\ colors' = r.colors
            /\ isLoading' = FALSE
            /\ last' = Obs("refreshColors", TRUE, "", r.colors, Len(r.colors), FALSE,
                           r.failed)
            /\ undoChain' = NoChain
            /\ addRun' = NoRun
            /\ UNCHANGED <<undoStack, redoStack, backupVars, utilVars>>

\* the backup faults tried in the hook: one of each outcome of createAutoBackup
AppBackupFaults == {"backup.mkdir", "backup.write", "backup.readdir"}

\* the backups directory after a backup call that ended as b
BackupAfter(op, b, attempted) ==
    /\ backups' = b.dir
    /\ lastBackup' = [op |-> op, threw |-> ~b.ok, returned |-> b.returned,
                      failed |-> b.failed, attempted |-> attempted]
    /\ now' = now
    /\ UNCHANGED utilVars

\* a store call r that came after the backup call b
WithBackup(r, b) == [r EXCEPT !.failed = @ \cup b.failed]

\* an error of the backup call reaches the catch of the mutation: no store call
HookBackupThrew(op, b) ==
    /\ HookThrew
    /\ last' = Obs(op, FALSE, b.error, <<>>, 0, FALSE, b.failed)
    /\ faults' = faults + 1
    /\ UNCHANGED <<file, colorCache, fileMetadataCache, external>>

\* a mutation after its check of previousColors[index]: the automatic backup
\* that ended as b, then the store call that ended as r
HookMutated(op, type, b, r, fault) ==
    /\ BackupAfter("createAutoBackup", b, b.ok)
    /\ IF ~b.ok
       THEN HookBackupThrew(op, b)
       ELSE /\ StoreAfter(WithBackup(r, b), fault, MaxAppWrites)
            /\ IF r.ok THEN HookRecorded(type, r.colors) ELSE HookThrew
            /\ last' = ObsCall(op, WithBackup(r, b))

AddNewColor ==
    \E in \in AppColorInputs, fault \in Allowed(AppFaults \cup AppBackupFaults) :
        \E b \in createAutoBackup(backups, now, "add-color", fault) :
        \E r \in {addColor(in[1], in[2], file, colorCache, fileMetadataCache, fault)} :
            /\ HookMutated("addNewColor", "add", b, r, fault)
            /\ addRun' = NoRun

UpdateColor ==
    \E index \in IndexInputs, in \in AppEditInputs,
       fault \in Allowed(AppFaults \cup AppBackupFaults) :
        \E b \in createAutoBackup(backups, now, "edit-color", fault) :
        \E r \in {editColor(index, in[1], in[2], file, colorCache, fileMetadataCache,
                           fault)} :
            /\ IF index < 0 \/ index >= Len(colors)
               THEN HookNotFound("updateColor")
               ELSE HookMutated("updateColor", "edit", b, r, fault)
            /\ addRun' = NoRun

RemoveColor ==
    \E index \in IndexInputs, fault \in Allowed(AppFaults \cup AppBackupFaults) :
        \E b \in createAutoBackup(backups, now, "delete-color", fault) :
        \E r \in {deleteColor(index, file, colorCache, fileMetadataCache, fault)} :
            /\ IF index < 0 \/ index >= Len(colors)
               THEN HookNotFound("removeColor")
               ELSE HookMutated("removeColor", "delete", b, r, fault)
            /\ addRun' = NoRun

\* undo and redo: the manager moves the action, the hook shows the snapshot and
\* then saves it; a failed save is caught and only sets `error`
HookRestore(op, m, fault, nextStage) ==
    \E r \in {saveColors(m.state, file, colorCache, fileMetadataCache, fault)} :
        IF ~m.some
        THEN /\ last' = Obs(op, TRUE, "", <<>>, 0, FALSE, {})
             /\ undoChain' = NoChain
             /\ UNCHANGED <<file, colorCache, fileMetadataCache, colors, isLoading,
                            undoStack, redoStack, faults, external, backupVars, utilVars>>
        ELSE /\ StoreAfter(r, fault, MaxAppWrites)
             /\ colors' = m.state
             /\ undoStack' = m.undo
             /\ redoStack' = m.redo
             /\ last' = Obs(op, r.ok, r.error, m.state, 0, r.ok, r.failed)
             /\ undoChain' = IF r.ok /\ undoChain.stage = nextStage - 1
                             THEN [undoChain EXCEPT !.stage = nextStage]
                             ELSE NoChain
             /\ UNCHANGED <<isLoading, backupVars, utilVars>>

Undo ==
    \E fault \in Allowed(AppFaults) :
        /\ HookRestore("undo", managerUndo(undoStack, redoStack), fault, 2)
        /\ addRun' = NoRun

Redo ==
    \E fault \in Allowed(AppFaults) :
        /\ HookRestore("redo", managerRedo(undoStack, redoStack), fault, 3)
        /\ addRun' = NoRun

-----------------------------------------------------------------------------
(* The UndoRedoManager alone: a caller that records one action per change of *)
(* its collection and restores what undo() and redo() return.  The collection *)
(* after n changes is Snapshot(n).                                            *)

Snapshot(n) == <<Entry(0, Sky, Rgb(n, 0, 0))>>
SnapshotNumber(cs) == cs[1].rgb.r

InitHistory ==
    /\ file = AbsentFile
    /\ colorCache = NoColors
    /\ fileMetadataCache = NoMetadata
    /\ colors = Snapshot(0)
    /\ isLoading = FALSE
    /\ undoStack = <<>>
    /\ redoStack = <<>>
    /\ last = Obs("init", TRUE, "", <<>>, 0, FALSE, {})
    /\ undoChain = NoChain
    /\ addRun = NoRun
    /\ faults = 0
    /\ external = FALSE
    /\ backups = {}
    /\ now = 0
    /\ lastBackup = NoBackup
    /\ QueueAtRest
    /\ NothingListed

storeVars == <<file, colorCache, fileMetadataCache, isLoading, addRun, faults, external,
               backupVars, utilVars>>

\* undoChain.stage: 1 recorded, 2 undone, 3 redone, 4 recorded after an undo,
\* 5 redo tried after that
RecordAction ==
    /\ SnapshotNumber(colors) < MaxSnapshots
    /\ \E action \in {createAction("edit", colors, Snapshot(SnapshotNumber(colors) + 1))} :
        \E rec \in {recordAction(undoStack, redoStack, action)} :
            /\ undoStack' = rec.undo
            /\ redoStack' = rec.redo
            /\ colors' = action.newState
            /\ last' = Obs("recordAction", TRUE, "", action.newState, 0, FALSE, {})
            /\ undoChain' = [NoChain EXCEPT !.stage = IF undoChain.stage = 2 THEN 4 ELSE 1]
    /\ UNCHANGED storeVars

\* what the manager call that returned m leaves: ok = FALSE when it returned null
ManagerAfter(op, m, stage) ==
    /\ undoStack' = m.undo
    /\ redoStack' = m.redo
    /\ colors' = IF m.some THEN m.state ELSE colors
    /\ last' = Obs(op, m.some, "", m.state, 0, FALSE, {})
    /\ undoChain' = [NoChain EXCEPT !.stage = stage]
    /\ UNCHANGED storeVars

ManagerUndo ==
    \E m \in {managerUndo(undoStack, redoStack)} :
        ManagerAfter("manager.undo", m, IF m.some THEN 2 ELSE 0)

ManagerRedo ==
    \E m \in {managerRedo(undoStack, redoStack)} :
        ManagerAfter("manager.redo", m,
                     IF undoChain.stage = 4 THEN 5 ELSE IF m.some THEN 3 ELSE 0)

-----------------------------------------------------------------------------
(* The BackupManager alone: backups of the loaded collection, asked for by   *)
(* the user (no reason given) or made before an add, while time passes.      *)

InitBackup ==
    /\ file = ArrayFile(DEFAULT_COLORS, 0)
    /\ colorCache = NoColors
    /\ fileMetadataCache = NoMetadata
    /\ colors = DEFAULT_COLORS
    /\ isLoading = FALSE
    /\ undoStack = <<>>
    /\ redoStack = <<>>
    /\ last = Obs("init", TRUE, "", <<>>, 0, FALSE, {})
    /\ undoChain = NoChain
    /\ addRun = NoRun
    /\ faults = 0
    /\ external = FALSE
    /\ backups = {}
    /\ now = 0
    /\ lastBackup = NoBackup
    /\ QueueAtRest
    /\ NothingListed

notBackupVars == <<file, colorCache, fileMetadataCache, hookVars, addRun, external>>

ClockTick ==
    /\ now < MaxClock
    /\ now' = now + 1
    /\ UNCHANGED <<notBackupVars, backups, lastBackup, last, faults, utilVars>>

\* what a backup call that ended as b leaves
BackupCalled(op, b, fault) ==
    /\ fault = "none" \/ fault \in b.failed
    /\ BackupAfter(op, b, FALSE)
    /\ last' = Obs(op, b.ok, b.error, <<>>, 0, FALSE, b.failed)
    /\ faults' = IF fault = "none" THEN faults ELSE faults + 1
    /\ UNCHANGED notBackupVars

\* useColors.createBackup(): backupManager.createBackup(colors, undefined)
CreateBackup ==
    \E fault \in Allowed(BackupFaults) :
        \E b \in createBackup(backups, now, "", fault) :
            BackupCalled("createBackup", b, fault)

CreateAutoBackup ==
    \E fault \in Allowed(BackupFaults) :
        \E b \in createAutoBackup(backups, now, "add-color", fault) :
            BackupCalled("createAutoBackup", b, fault)

-----------------------------------------------------------------------------
(* The colour formats alone: a string is parsed, or a triple is formatted and *)
(* the result parsed back.  `last` is [op, hex, from, some, rgb]: the string, *)
(* the triple it was formatted from (<<>> when none), and the parser's result. *)

\* an upper-case and a lower-case digit, a decimal digit, a letter that is no
\* hex digit, and the "#"
HexAlphabet == {"#", "F", "a", "5", "g"}

HexInputs ==
    UNION {[1..n -> HexAlphabet] : n \in 0..MaxHexLen}
        \cup {<<"-","f","0","0","0","0">>, <<"0","x","0","0","0","0">>,
               <<" ","f","0","0","0","0">>}

RgbChannels == {-1, 0, 9, 16, 171, 255, 256, 300}
RgbInputs == {Rgb(r, g, b) : r \in RgbChannels, g \in RgbChannels, b \in RgbChannels}

FormatInput(hex, from) ==
    [op |-> "input", hex |-> hex, from |-> from, some |-> FALSE, rgb |-> Rgb(0, 0, 0)]

InitFormat ==
    /\ file = AbsentFile
    /\ colorCache = NoColors
    /\ fileMetadataCache = NoMetadata
    /\ colors = <<>>
    /\ isLoading = FALSE
    /\ undoStack = <<>>
    /\ redoStack = <<>>
    /\ last \in {FormatInput(hex, <<>>) : hex \in HexInputs}
                 \cup {FormatInput(<<>>, <<rgb>>) : rgb \in RgbInputs}
    /\ undoChain = NoChain
    /\ addRun = NoRun
    /\ faults = 0
    /\ external = FALSE
    /\ backups = {}
    /\ now = 0
    /\ lastBackup = NoBackup
    /\ QueueAtRest
    /\ NothingListed

notLast == <<file, colorCache, fileMetadataCache, hookVars, addRun, faults, external,
             backupVars, utilVars>>

FormatAsHex ==
    /\ last.op = "input"
    /\ last.from # <<>>
    /\ last' = [last EXCEPT !.op = "formatAsHex", !.hex = formatAsHex(last.from[1])]
    /\ UNCHANGED notLast

ParseHexToRgb ==
    /\ (last.op = "input" /\ last.from = <<>>) \/ last.op = "formatAsHex"
    /\ \E parsed \in {parseHexToRgb(last.hex)} :
          last' = [last EXCEPT !.op = "parseHexToRgb", !.some = parsed.some,
                               !.rgb = parsed.rgb]
    /\ UNCHANGED notLast

-----------------------------------------------------------------------------
(* The OperationQueue alone: operations are enqueued while batches run.      *)
(* An operation is named by the number of its enqueue() call; when it        *)
(* settles it resolves or rejects.                                           *)

\* the store, the hook and the backup manager before any of them has run
AtRest ==
    /\ file = AbsentFile
    /\ colorCache = NoColors
    /\ fileMetadataCache = NoMetadata
    /\ colors = <<>>
    /\ isLoading = FALSE
    /\ undoStack = <<>>
    /\ redoStack = <<>>
    /\ last = Obs("init", TRUE, "", <<>>, 0, FALSE, {})
    /\ undoChain = NoChain
    /\ addRun = NoRun
    /\ faults = 0
    /\ external = FALSE
    /\ backups = {}
    /\ now = 0
    /\ lastBackup = NoBackup

InitQueue ==
    /\ AtRest
    /\ QueueAtRest
    /\ NothingListed

notQueueVars == <<file, colorCache, fileMetadataCache, hookVars, last, addRun, faults,
                  external, backupVars, lazyVars>>

\* processBatch up to its first await: it returns at once when a call is under
\* way or nothing is queued, else it sets isProcessing and waits for the delay
processBatch(processing, q) ==
    IF processing \/ q = <<>>
    THEN [isProcessing |-> processing, batch |-> NoBatch, started |-> FALSE]
    ELSE [isProcessing |-> TRUE, batch |-> [pc |-> "delay", operations |-> <<>>],
          started |-> TRUE]

\* enqueue(operation): push, then processBatch()
Enqueue ==
    /\ enqueued < MaxOperations
    /\ enqueued' = enqueued + 1
    /\ queue' = Append(queue, enqueued + 1)
    /\ \E p \in {processBatch(isProcessing, queue')} :
          /\ isProcessing' = p.isProcessing
          /\ batch' = IF p.started THEN p.batch ELSE batch
    /\ UNCHANGED <<running, executed, notQueueVars>>

\* the operation at the head of `operations` is called and awaited
StartOperation(operations) ==
    /\ batch' = [pc |-> "run", operations |-> operations]
    /\ running' = running \cup {operations[1]}
    /\ executed' = Append(executed, operations[1])

\* the finally block of processBatch
Finally ==
    \E p \in {processBatch(FALSE, queue)} :
        /\ isProcessing' = p.isProcessing
        /\ batch' = p.batch

\* the batch delay is over: the queue is copied and emptied, the loop starts
BatchDelayElapsed ==
    /\ batch.pc = "delay"
    /\ queue' = <<>>
    /\ IF queue = <<>>
       THEN Finally /\ UNCHANGED <<running, executed>>
       ELSE StartOperation(queue) /\ UNCHANGED isProcessing
    /\ UNCHANGED <<enqueued, notQueueVars>>

\* the awaited operation resolves: the loop goes on, or is over
OperationResolves ==
    /\ batch.pc = "run"
    /\ IF Len(batch.operations) > 1
       THEN /\ batch' = [pc |-> "run", operations |-> Tail(batch.operations)]
            /\ running' = (running \ {batch.operations[1]}) \cup {batch.operations[2]}
            /\ executed' = Append(executed, batch.operations[2])
            /\ UNCHANGED isProcessing
       ELSE /\ running' = running \ {batch.operations[1]}
            /\ Finally
            /\ UNCHANGED executed
    /\ UNCHANGED <<queue, enqueued, notQueueVars>>

\* the awaited operation rejects: the catch block logs, the loop is left
OperationRejects ==
    /\ batch.pc = "run"
    /\ running' = running \ {batch.operations[1]}
    /\ Finally
    /\ UNCHANGED <<queue, executed, enqueued, notQueueVars>>

-----------------------------------------------------------------------------
(* useLazyLoading alone: the component is rendered with new items, loadMore  *)
(* is called from the last render, timers fire. Items are numbers.           *)

AllItemsInputs == {<<>>, <<1, 2, 3>>, <<1, 2, 3, 4, 5>>, <<6, 7, 1>>}

\* Array.prototype.slice(start, end)
sliceFrom(s, start, end) ==
    SubSeq(s, start + 1, IF Len(s) < end THEN Len(s) ELSE end)

\* the effect on [allItems, config.pageSize]
resetItems(state, all) ==
    IF Len(all) > 0
    THEN [items |-> slice(all, PageSize), hasMore |-> Len(all) > PageSize,
          isLoading |-> FALSE, currentPage |-> 1]
    ELSE state

InitLazy ==
    /\ AtRest
    /\ QueueAtRest
    /\ allItems \in AllItemsInputs
    /\ lazyState = resetItems(InitialLazyState, allItems)
    /\ rendered = Closure(lazyState, allItems)
    /\ timers = <<>>

notLazyVars == <<file, colorCache, fileMetadataCache, hookVars, last, addRun, faults,
                 external, backupVars, queueVars>>

\* the parent renders the component with other items: the effect runs, and the
\* state it sets is rendered
SetAllItems ==
    /\ \E all \in AllItemsInputs :
          /\ allItems' = all
          /\ lazyState' = resetItems(lazyState, all)
          /\ rendered' = Closure(lazyState', all)
    /\ UNCHANGED <<timers, notLazyVars>>

\* the calls of loadMore() of one render are over: the state they set is rendered
Render ==
    /\ rendered # Closure(lazyState, allItems)
    /\ rendered' = Closure(lazyState, allItems)
    /\ UNCHANGED <<allItems, lazyState, timers, notLazyVars>>

\* loadMore() of the last render, when it does not return at once
LoadMore ==
    /\ ~(rendered.isLoading \/ ~rendered.hasMore)
    /\ Len(timers) < MaxTimers
    /\ lazyState' = [lazyState EXCEPT !.isLoading = TRUE]
    /\ timers' = Append(timers, [currentPage |-> rendered.currentPage,
                                 allItems |-> rendered.allItems])
    /\ UNCHANGED <<allItems, rendered, notLazyVars>>

\* the state the callback of setTimeout sets, from what loadMore closed over
loadedMore(prev, timer) ==
    LET startIndex == timer.currentPage * PageSize
        endIndex == startIndex + PageSize
    IN  [items |-> prev.items \o sliceFrom(timer.allItems, startIndex, endIndex),
         hasMore |-> endIndex < Len(timer.allItems),
         isLoading |-> FALSE,
         currentPage |-> prev.currentPage + 1]

\* the oldest timer fires, once the render in which loadMore was called is
\* over; the state its callback sets is rendered
TimerFires ==
    /\ timers # <<>>
    /\ rendered = Closure(lazyState, allItems)
    /\ \E next \in {loadedMore(lazyState, Head(timers))} :
          /\ Len(next.items) <= MaxVisible
          /\ lazyState' = next
          /\ rendered' = Closure(next, allItems)
    /\ timers' = Tail(timers)
    /\ UNCHANGED <<allItems, notLazyVars>>

-----------------------------------------------------------------------------
(* Specifications *)

\* the store functions under every caller, with another process writing the file
Next ==
    \/ Tick
    \/ ExternalWrite
    \/ Load
    \/ Save
    \/ Add
    \/ Edit
    \/ Delete

Spec == Init /\ [][Next]_vars

\* the hook and its undo/redo, alone on the file, within the life of the cache
NextApp ==
    \/ RefreshColors
    \/ AddNewColor
    \/ UpdateColor
    \/ RemoveColor
    \/ Undo
    \/ Redo

SpecApp == Init /\ [][NextApp]_vars

\* the UndoRedoManager under every sequence of its three operations
NextHistory ==
    \/ RecordAction
    \/ ManagerUndo
    \/ ManagerRedo

SpecHistory == InitHistory /\ [][NextHistory]_vars

\* the BackupManager under every sequence of backups, with time passing
NextBackup ==
    \/ ClockTick
    \/ CreateBackup
    \/ CreateAutoBackup

SpecBackup == InitBackup /\ [][NextBackup]_vars

\* the formatter and the parser on every input
NextFormat ==
    \/ FormatAsHex
    \/ ParseHexToRgb

SpecFormat == InitFormat /\ [][NextFormat]_vars

\* the OperationQueue under every interleaving of enqueue() with its batches
NextQueue ==
    \/ Enqueue
    \/ BatchDelayElapsed
    \/ OperationResolves
    \/ OperationRejects

SpecQueue == InitQueue /\ [][NextQueue]_vars

\* useLazyLoading under every sequence of renders, loadMore() calls and timers
NextLazy ==
    \/ SetAllItems
    \/ Render
    \/ LoadMore
    \/ TimerFires

SpecLazy == InitLazy /\ [][NextLazy]_vars

-----------------------------------------------------------------------------
(* Properties *)

\* every record's index is its position
Dense(cs) == \A i \in 1..Len(cs) : cs[i].index = i - 1

\* no two records have names equal ignoring case
NoDuplicateNames(cs) ==
    \A i, j \in 1..Len(cs) :
        i # j => toLowerCase(cs[i].name) # toLowerCase(cs[j].name)

\* what loadColors() returns now, without an I/O failure
LoadNow == loadColors(file, colorCache, fileMetadataCache, "none").colors

\* what loadColors() returns from the file alone, the cache being empty
LoadUncached == loadColors(file, NoColors, NoMetadata, "none").colors

\* the program alone has written the file and no I/O call has failed
Undisturbed == ~external /\ faults = 0

\* the last call wrote the file and no other process has written it since
WroteLast == last.saved /\ "save.raced" \notin last.failed

\* C1: the cache never changes what load() returns: with no external change to
\* the file and no I/O failure, load() returns what a load() with an empty cache
\* returns by reading and validating the file.
C1_CacheIsTransparent == Undisturbed => LoadNow = LoadUncached

\* C2: after a successful add, edit or delete through useColors, undo() persists
\* the collection stored immediately before the mutation, and a redo() right
\* after persists the collection stored immediately after it.
C2_UndoRedoPersistSnapshots ==
    faults = 0 =>
        /\ undoChain.stage = 2 => Stored(file) = undoChain.pre
        /\ undoChain.stage = 3 => Stored(file) = undoChain.post

\* C3: after any sequence of add, edit, delete, undo and redo from the default
\* records, no two persisted records have names equal ignoring case.
C3_NoDuplicateNamesPersisted == NoDuplicateNames(Stored(file))

\* C3 case: a duplicate was refused after earlier mutations were recorded
C3_Witness ==
    /\ last.op = "addNewColor"
    /\ last.error = "DuplicateColorError"
    /\ undoStack # <<>>
    /\ Len(Stored(file)) > Len(DEFAULT_COLORS)

\* C4: the collection written to the file, and every collection load() returns
\* (called directly or inside add, edit, delete), has at most MAX_COLORS records,
\* whatever the file held and whatever array save() was given.
C4_AtMostMaxColors ==
    /\ last.op = "load" => Len(last.returned) <= MAX_COLORS
    /\ last.loaded <= MAX_COLORS
    /\ WroteLast => Len(Stored(file)) <= MAX_COLORS

\* C4 case: load() has cut a file of more than MAX_COLORS valid records
C4_Witness ==
    /\ last.op = "load"
    /\ Len(last.returned) = MAX_COLORS
    /\ Len(filterValid(Stored(file))) > MAX_COLORS

\* C5: after a successful save() the index fields of the records in the file are
\* 0..len-1 in array order, whatever indexes the input records carried.
C5_IndexesDenseAfterSave == WroteLast => Dense(Stored(file))

\* C5 case: save() has written records that came with other indexes
C5_Witness ==
    /\ last.op = "save"
    /\ last.saved
    /\ Len(Stored(file)) = MAX_COLORS
    /\ Stored(file)[2].name = SkyUpper

\* C6: every record of a collection returned by load(), add(), edit() or
\* delete() has an index equal to its position in the returned array, for every
\* file content load() accepts.
C6_ReturnedIndexesDense ==
    (last.op \in {"load", "add", "edit", "delete"} /\ last.ok /\ faults = 0)
        => Dense(last.returned)

\* add() was called and its loadColors() returned MAX_COLORS records
AddAtCapacity == last.op = "add" /\ last.loaded = MAX_COLORS

\* C7 as stated: add() at MAX_COLORS records always fails with MaxColorsReached,
\* for every name, and the persisted collection still has MAX_COLORS records
\* (the file being written by this program alone).
C7_AlwaysMaxColorsReached ==
    AddAtCapacity =>
        /\ last.error = "MaxColorsReachedError"
        /\ ~external => Len(LoadUncached) = MAX_COLORS

\* C7: add() at MAX_COLORS records always fails and leaves the file as it was:
\* with DuplicateColor when the trimmed name equals an existing name ignoring
\* case, with MaxColorsReached otherwise.
C7_DuplicateOrMaxColorsReached ==
    /\ AddAtCapacity =>
        /\ ~last.ok
        /\ last.error \in {"DuplicateColorError", "MaxColorsReachedError"}
        /\ ~last.saved
        /\ ~external => Len(LoadUncached) = MAX_COLORS
    /\ \A in \in ColorInputs :
         \A r \in {addColor(in[1], in[2], file, colorCache, fileMetadataCache, "none")} :
            Len(r.loaded) = MAX_COLORS =>
                /\ ~r.ok
                /\ r.file = file
                /\ r.error =
                     IF \E i \in 1..Len(r.loaded) :
                            toLowerCase(r.loaded[i].name) = toLowerCase(trim(in[1]))
                     THEN "DuplicateColorError"
                     ELSE "MaxColorsReachedError"

\* C7 case: add() at MAX_COLORS records was refused for a duplicate name
C7_Witness == AddAtCapacity /\ last.error = "DuplicateColorError"

\* the failures after which loadColors() returns the defaults
DefaultingFailures ==
    {"ensure.access", "ensure.mkdir", "ensure.write", "ensure.partialWrite",
     "load.read", "parse"}

\* the failures of the cache probe: they only keep the cache from being used
ProbeFailures == {"load.access", "load.stat"}

C9_ReturnedIsStored ==
    (last.op \in {"add", "edit", "delete"} /\ last.ok /\ Undisturbed) =>
        /\ last.returned = Stored(file)
        /\ last.returned = LoadNow

\* the records of a run of adds, in order, each with its position as index
RunRecords(run) ==
    LET all == [i \in 1..Len(run.base) |->
                   [name |-> run.base[i].name, rgb |-> run.base[i].rgb]] \o run.added
    IN  [i \in 1..Len(all) |-> Entry(i - 1, all[i].name, all[i].rgb)]

ValidPositions(cs) == {i \in 1..Len(cs) : isValidColorEntry(cs[i])}

\* the k-th smallest member of a set of numbers
RECURSIVE Nth(_, _)
Nth(S, k) ==
    LET least == CHOOSE x \in S : \A y \in S : x <= y
    IN  IF k = 1 THEN least ELSE Nth(S \ {least}, k - 1)

\* the first MAX_COLORS valid entries of cs, in input order, indexed by position
Kept(cs) ==
    LET P == ValidPositions(cs)
        k == Min(Cardinality(P), MAX_COLORS)
    IN  [j \in 1..k |-> [cs[Nth(P, j)] EXCEPT !.index = j - 1]]

\* arrays save() is tried with, beyond those the Save action passes
SaveCases ==
    SaveInputs \cup {Invalid, ReadmeExample \o Invalid, Invalid \o DEFAULT_COLORS}

\* C11: save(records) writes exactly the first MAX_COLORS structurally valid
\* entries of records, in input order, with index rewritten to 0..k-1; invalid
\* entries are dropped before the cut.
C11_SaveKeepsFirstValid ==
    /\ \A input \in SaveCases :
         \A r \in {saveColors(input, file, colorCache, fileMetadataCache, "none")} :
            r.ok /\ Stored(r.file) = Kept(input)
    /\ (last.op = "save" /\ WroteLast)
          => \E input \in SaveInputs : Stored(file) = Kept(input)

\* C11 case: save() was given 16 valid entries with invalid ones among the first 15
C11_Witness ==
    /\ last.op = "save"
    /\ WroteLast
    /\ Stored(file) = Kept(Crowded)
    /\ Len(Stored(file)) = MAX_COLORS
    /\ Cardinality(ValidPositions(SubSeq(Crowded, 1, MAX_COLORS))) < MAX_COLORS

\* cs without the record at position index (0-based), each index its position
WithoutPosition(cs, index) ==
    [j \in 1..(Len(cs) - 1) |->
        [(IF j <= index THEN cs[j] ELSE cs[j + 1]) EXCEPT !.index = j - 1]]

\* positions delete() is tried with, beyond those the Delete action passes
DeleteCases == IndexInputs \cup {1, 4, MAX_COLORS - 1, MAX_COLORS}

EditCases == EditInputs \cup {<<SkyPadded, Rgb(Num(1), Num(2), Num(3))>>}

\* a record of cs at a position other than index has the trimmed name, ignoring case
NameTakenElsewhere(cs, index, name) ==
    \E j \in 1..Len(cs) :
        j - 1 # index /\ toLowerCase(cs[j].name) = toLowerCase(trim(name))

\* C13: edit(i, name, rgb) with i in range fails with DuplicateName exactly when
\* a record at another position has the trimmed name ignoring case; a failed
\* edit (DuplicateName or IndexOutOfRange) writes nothing; a successful edit
\* changes only the record at position i.
C13_EditChangesOneRecord ==
    Undisturbed =>
      /\ (last.op = "edit" /\ last.ok) => Len(Stored(file)) = last.loaded
      /\ \A index \in IndexInputs, in \in EditCases :
        \A r \in {editColor(index, in[1], in[2], file, colorCache, fileMetadataCache,
                            "none")} :
            IF index < 0 \/ index >= Len(r.loaded)
            THEN ~r.ok /\ r.error = "ColorNotFoundError" /\ ~r.saved
            ELSE /\ (r.error = "DuplicateColorError")
                        <=> NameTakenElsewhere(r.loaded, index, in[1])
                 /\ r.error = "DuplicateColorError" => ~r.saved
                 /\ r.ok =>
                      /\ Len(Stored(r.file)) = Len(r.loaded)
                      /\ \A j \in 1..Len(r.loaded) :
                            j - 1 # index => Stored(r.file)[j] = r.loaded[j]

\* the collection a save of one of the SaveInputs writes
SavedBy(input) == reindex(slice(filterValid(input), MAX_COLORS))

\* C19: after a save() that returned successfully the cached collection is the
\* collection that save wrote and the cached fingerprint is the (mtime, size) of
\* the file as that save wrote it.
C19_CacheMatchesWrittenFile ==
    (last.op = "save" /\ last.ok) =>
        \E input \in SaveInputs :
            /\ colorCache = CacheSet(SavedBy(input))
            /\ fileMetadataCache =
                  CacheSet([lastModified |-> IF "save.raced" \in last.failed
                                             THEN file.mtime - 1 ELSE file.mtime,
                            size |-> JsonSize(SavedBy(input))])
            /\ "save.raced" \notin last.failed => Stored(file) = SavedBy(input)

\* C20: the load() that follows a write by another process, also one that landed
\* between the file write and the fingerprint stat of a save(), returns what a
\* load without cache returns.
C20_ExternalWriteDetected ==
    (last.op = "external" \/ (last.op = "save" /\ "save.raced" \in last.failed)) =>
        LoadNow = LoadUncached

\* C14: after recordAction(action) the redo stack is empty; a redo() that comes
\* after an undo() followed by a recordAction returns null and leaves both
\* stacks as they were.
C14_RecordClearsRedo ==
    [][ /\ last'.op = "recordAction" => redoStack' = <<>>
        /\ (undoChain.stage = 4 /\ last'.op = "manager.redo") =>
              /\ ~last'.ok
              /\ UNCHANGED <<undoStack, redoStack, colors>> ]_vars

\* C14 case: an action was undone, another recorded, and redo() returned null
C14_Witness ==
    /\ undoChain.stage = 5
    /\ last.op = "manager.redo"
    /\ ~last.ok
    /\ undoStack # <<>>
    /\ redoStack = <<>>

\* C15: neither stack ever holds more than maxHistorySize actions; a record on
\* a full undo stack drops the oldest action and keeps the others in order,
\* followed by the new one.
C15_HistoryBounded ==
    [][ /\ Len(undoStack') <= maxHistorySize
        /\ Len(redoStack') <= maxHistorySize
        /\ (last'.op = "recordAction" /\ Len(undoStack) = maxHistorySize) =>
              undoStack' = Append(Tail(undoStack), createAction("edit", colors, colors')) ]_vars

\* C15 case: a record on a full stack has dropped the first action
C15_Witness ==
    /\ last.op = "recordAction"
    /\ Len(undoStack) = maxHistorySize
    /\ undoStack[1].previousState # Snapshot(0)
    /\ undoStack[maxHistorySize].newState = colors

HookMutations == {"addNewColor", "updateColor", "removeColor"}

\* C16: a successful addNewColor, updateColor or removeColor records exactly one
\* action, whose previousState is the collection stored before the mutation and
\* whose newState is the collection stored after it; a failing one records
\* none; also when the mutation is issued before the initial load completed.
C16_MutationsRecordStoredStates ==
    [][ (last'.op \in HookMutations /\ faults' = 0) =>
          IF last'.ok
          THEN \E type \in {"add", "edit", "delete"} :
                  undoStack' = Append(undoStack,
                                      createAction(type, Stored(file), Stored(file')))
          ELSE UNCHANGED <<undoStack, redoStack>> ]_vars

\* the files of dir that no file of after replaces: the pruned ones
Pruned(dir, after) ==
    {d \in dir : ~\E k \in after : k.time = d.time /\ k.reason = d.reason}

\* C17: after every createBackup() that completed the backups directory holds
\* at most maxBackups files, pruning removes no more than the excess, and every
\* file that remains is at least as new as every file pruned.
C17_AtMostMaxBackupsKept ==
    [][ (lastBackup'.op # "none" /\ lastBackup'.returned = "path") =>
          /\ Cardinality(backups') <= maxBackups
          /\ Pruned(backups, backups') # {} => Cardinality(backups') = maxBackups
          /\ \A d \in Pruned(backups, backups'), k \in backups' :
                k.readable => k.time >= d.time ]_vars

WriteFailures == {"backup.mkdir", "backup.write", "backup.partialWrite"}

SaveFailures == {"save.mkdir", "save.write", "save.partialWrite"}

\* C21: when the directory creation or the file write fails inside save(), save()
\* fails with FileOperationError and the file, the cached collection and the
\* cached fingerprint are as they were before the call.
C21_FailedSaveChangesNothing ==
    /\ (last.op = "save" /\ ~last.ok) => last.error = "FileOperationError"
    /\ \A input \in SaveInputs, fault \in SaveFailures :
          \A r \in {saveColors(input, file, colorCache, fileMetadataCache, fault)} :
              /\ ~r.ok
              /\ r.error = "FileOperationError"
              /\ r.file = file
              /\ r.cc = colorCache
              /\ r.mc = fileMetadataCache

\* the integer nearest to the channel v (in units of 1/Resolution), halves
\* going up, brought into [0,255]
RoundedClamped(v) ==
    LET n == CHOOSE k \in -10..310 :
                 2 * k * Resolution <= 2 * v + Resolution
                     /\ 2 * v + Resolution < 2 * (k + 1) * Resolution
    IN  IF n < 0 THEN 0 ELSE IF n > 255 THEN 255 ELSE n

\* C22: a successful add(name, rgb) persists, at the last position, a record
\* with the trimmed name, each channel rounded and clamped into [0,255] and
\* index equal to the length of the collection before the call; the records
\* before it are unchanged.
C22_AddPersistsSanitizedRecord ==
    \A in \in ColorInputs :
        \A r \in {addColor(in[1], in[2], file, colorCache, fileMetadataCache, "none")} :
            r.ok =>
                /\ Len(Stored(r.file)) = Len(r.loaded) + 1
                /\ Stored(r.file)[Len(r.loaded) + 1] =
                      Entry(Len(r.loaded), trim(in[1]),
                            Rgb(RoundedClamped(in[2].r), RoundedClamped(in[2].g),
                                RoundedClamped(in[2].b)))
                /\ \A j \in 1..Len(r.loaded) : Stored(r.file)[j] = r.loaded[j]

\* a name of 51 characters
LongName == [i \in 1..51 |-> "x"]

\* name arguments the store functions are tried with
NameCases == {in[1] : in \in ColorInputs} \cup {LongName}

\* the names of the records of `after` that `before` does not hold
NewNames(before, after) ==
    {after[j].name : j \in 1..Len(after)} \ {before[j].name : j \in 1..Len(before)}

\* C23: every record that add() or edit() persists has a name that is non-empty
\* and at most 50 characters long after trimming, whatever name the store
\* function is called with.
C23_PersistedNamesValid ==
    \A name \in NameCases :
        /\ \A r \in {addColor(name, Rgb(0, 0, 0), file, colorCache, fileMetadataCache,
                              "none")} :
              r.saved => \A n \in NewNames(r.loaded, Stored(r.file)) : isValidName(n)
        /\ \A r \in {editColor(0, name, Rgb(0, 0, 0), file, colorCache,
                               fileMetadataCache, "none")} :
              r.saved => \A n \in NewNames(r.loaded, Stored(r.file)) : isValidName(n)

\* hex without one leading "#"
HexBody(hex) == IF hex # <<>> /\ Head(hex) = "#" THEN Tail(hex) ELSE hex

\* 3 or 6 characters, all hex digits, after one optional leading "#"
IsHexColor(hex) ==
    /\ Len(HexBody(hex)) \in {3, 6}
    /\ \A i \in 1..Len(HexBody(hex)) : isHexDigit(HexBody(hex)[i])

\* the triple a hex colour stands for: each digit of the short form is doubled
HexColorValue(hex) ==
    LET body == HexBody(hex)
        pair(i) == IF Len(body) = 3
                   THEN 17 * hexDigitValue(body[i])
                   ELSE 16 * hexDigitValue(body[2 * i - 1]) + hexDigitValue(body[2 * i])
    IN  Rgb(pair(1), pair(2), pair(3))

\* C24: hexToRgb(hex) returns a triple exactly when hex, after one optional
\* leading "#", is 3 or 6 hex digits; the triple is the value of the digits,
\* each digit of the short form doubled; every other input yields null.
C24_HexParsedExactlyWhenValid ==
    (last.op = "parseHexToRgb" /\ last.from = <<>>) =>
        /\ last.some <=> IsHexColor(last.hex)
        /\ last.some => last.rgb = HexColorValue(last.hex)

\* a channel brought into [0,255]
Clamped(v) == IF v < 0 THEN 0 ELSE IF v > 255 THEN 255 ELSE v

\* C25: for integer channels, in or out of [0,255], toHex gives "#" and six
\* lower-case hex digits, and hexToRgb of that string gives the triple with
\* each channel clamped into [0,255].
C25_HexRoundTrip ==
    /\ last.op = "formatAsHex" =>
          /\ Len(last.hex) = 7
          /\ last.hex[1] = "#"
          /\ \A i \in 2..7 : \E d \in 1..16 : HexDigits[d] = last.hex[i]
    /\ (last.op = "parseHexToRgb" /\ last.from # <<>>) =>
          /\ last.some
          /\ last.rgb = Rgb(Clamped(last.from[1].r), Clamped(last.from[1].g),
                            Clamped(last.from[1].b))

\* C25 case: a triple with channels below 0, of one hex digit and above 255
\* was formatted and parsed back
C25_Witness ==
    /\ last.op = "parseHexToRgb"
    /\ last.from = <<Rgb(-1, 9, 300)>>
    /\ last.hex = <<"#","0","0","0","9","f","f">>
    /\ last.rgb = Rgb(0, 9, 255)

\* the file holds no array, or an array without a valid record
NothingValid(f) ==
    f.exists /\ f.kind # "corrupt" /\ (f.kind # "array" \/ filterValid(f.data) = <<>>)

\* C26: load() leaves the file as it is whenever the file exists; when the file
\* parses to something that is no array, or to an array without a valid
\* record, load() returns the defaults and the file keeps its content.
C26_LoadLeavesExistingFile ==
    [][ (last'.op = "load" /\ file.exists) =>
          /\ file' = file
          /\ NothingValid(file) => last'.returned = DEFAULT_COLORS ]_vars

NamesOf(cs) == [j \in 1..Len(cs) |-> cs[j].name]

\* C27: for every record `color` of the collection load() returns, the list's
\* removeColor(color.index) removes that record and no other, and its
\* updateColor(color.index, ...) replaces that record and no other.
C27_ListActsOnChosenColor ==
    \A p \in 1..Len(LoadNow) :
        \A color \in {LoadNow[p]} :
            /\ \A r \in {deleteColor(color.index, file, colorCache, fileMetadataCache,
                                     "none")} :
                  /\ r.ok
                  /\ NamesOf(Stored(r.file)) = NamesOf(WithoutPosition(r.loaded, p - 1))
            /\ \A r \in {editColor(color.index, Teal, color.rgb, file, colorCache,
                                   fileMetadataCache, "none")} :
                  /\ r.error # "ColorNotFoundError"
                  /\ r.ok => \A j \in 1..Len(r.loaded) :
                                j # p => Stored(r.file)[j].name = r.loaded[j].name

\* C28: undo() and redo() of useColors are all-or-nothing: when persisting the
\* restored collection fails, the undo stack, the redo stack and the collection
\* the hook shows are as before the call, so that the collection shown equals
\* the persisted one.
C28_UndoRedoAllOrNothing ==
    [][ last'.op \in {"undo", "redo"} =>
          /\ ~last'.ok => UNCHANGED <<undoStack, redoStack, colors>>
          /\ last'.failed # {} => colors' = Stored(file') ]_vars

\* the operations 1..n in that order
FirstOperations(n) == [i \in 1..n |-> i]

\* nothing is queued and no batch is under way: no operation will start unless
\* enqueue() is called again
QueueIdle == queue = <<>> /\ batch.pc = "none"

\* C29: every operation passed to enqueue() is executed exactly once, in enqueue
\* order and never together with another one, also when an earlier operation
\* of its batch rejects: the operations started so far are the first enqueued
\* ones, at most one runs, and once the queue is idle all of them have run
C29_EveryOperationExecutedOnce ==
    /\ executed = FirstOperations(Len(executed))
    /\ Cardinality(running) <= 1
    /\ QueueIdle => Len(executed) = enqueued

\* s is the beginning of t
IsPrefixOf(s, t) == Len(s) <= Len(t) /\ s = SubSeq(t, 1, Len(s))

\* no element of s is in it twice
NoDuplicates(s) == \A i, j \in 1..Len(s) : s[i] = s[j] => i = j

\* C30: after any renders with other items and any loadMore() calls, several
\* before the first timer fires included, the visible items are a prefix of
\* the current allItems without duplicates, and none when allItems is empty
C30_VisibleItemsArePrefix ==
    /\ IsPrefixOf(lazyState.items, allItems)
    /\ NoDuplicates(lazyState.items)
    /\ allItems = <<>> => lazyState.items = <<>>

====
